---- MODULE Spec2Model ----
(***************************************************************************)
(* Model of stats_from_playcounts.py: the run of main() from the two       *)
(* snapshot files to the summary.  Python dicts are functions (a raw JSON  *)
(* record is a function whose DOMAIN holds the fields the record has),     *)
(* insertion-ordered dicts that are iterated are sequences, and the        *)
(* iteration order of the set all_keys of compute_deltas, which the        *)
(* language leaves open, is a nondeterministic choice.                     *)
(***************************************************************************)
EXTENDS Integers, Sequences, FiniteSets, TLC

VARIABLES pc, current_data, prev_exists, prev_data, current_map, prev_map,
          deltas, stats, summary

vars == <<pc, current_data, prev_exists, prev_data, current_map, prev_map,
          deltas, stats, summary>>

(***************************************************************************)
(* Bounds of the model and constants of the program.                       *)
(***************************************************************************)
\* largest play count of a record of the exhaustive family
MaxPlay == 2
\* most records in a snapshot file of the raw-record family
MaxRecords == 2
\* the big libraries have up to this many tracks more than a limit
LargeExtra == 2
\* the iteration orders tried on a big library: rotations by 0..LargeRot of
\* the file order, each also reversed
LargeRot == 1
\* every iteration order is tried on a key set of at most this size
MaxPermuted == 4

\* top_songs[:100]
TopSongsLimit == 100
\* by_artist.most_common(5)
TopArtistsLimit == 5
\* new_tracks[:10], removed_tracks[:10]
SampleLimit == 10

(***************************************************************************)
(* Python values.                                                          *)
(***************************************************************************)
\* the value None; every other string of the model is a str
None == "<None>"

\* bool(v) of a str or None
Truthy(v) == v # None /\ v # ""

\* a or b
PyOr(a, b) == IF Truthy(a) THEN a ELSE b

\* d.get(k, default)
Get(d, k, default) == IF k \in DOMAIN d THEN d[k] ELSE default

\* the dict {}
EmptyDict == <<>>

\* seq[:n]
Take(seq, n) == SubSeq(seq, 1, IF Len(seq) < n THEN Len(seq) ELSE n)

\* seq[::-1]
Reverse(s) == [i \in 1..Len(s) |-> s[Len(s) + 1 - i]]

\* sum(s[lo..hi]), by halves
RECURSIVE SumRange(_, _, _)
SumRange(s, lo, hi) ==
    IF lo > hi THEN 0
    ELSE IF lo = hi THEN s[lo]
    ELSE LET mid == (lo + hi) \div 2
         IN SumRange(s, lo, mid) + SumRange(s, mid + 1, hi)

SumSeq(s) == SumRange(s, 1, Len(s))

Max(S) == CHOOSE x \in S : \A y \in S : y <= x

(***************************************************************************)
(* load_playcounts                                                         *)
(***************************************************************************)
\* the key of a record: its file, or "<artist> - <title>" when the file is
\* missing or empty
ItemKey(item) ==
    PyOr(Get(item, "file", None),
         Get(item, "artist", "Unknown") \o " - " \o Get(item, "title", "Unknown"))

\* the value stored under the key (the _raw copy of the record, which
\* nothing reads, is left out)
ItemValue(item) ==
    [file      |-> Get(item, "file", ItemKey(item)),
     title     |-> Get(item, "title", "Unknown"),
     artist    |-> Get(item, "artist", "Unknown"),
     album     |-> Get(item, "album", "Unknown"),
     playcount |-> Get(item, "playcount", 0)]

\* the loop's "mapping[key] = ..." leaves under each key the value of the
\* last record of the file that has this key
LastIndex(data, k) == Max({i \in 1..Len(data) : ItemKey(data[i]) = k})

load_playcounts(data) ==
    [k \in {ItemKey(data[i]) : i \in 1..Len(data)} |-> ItemValue(data[LastIndex(data, k)])]

(***************************************************************************)
(* compute_deltas                                                          *)
(***************************************************************************)
\* mutant: the keys of previous are forgotten
all_keys_CurrentOnly(cmap, pmap) == DOMAIN cmap

all_keys(cmap, pmap) == (DOMAIN cmap) \cup (DOMAIN pmap)

\* mutant: a negative difference is kept
ClampDelta_None(d) == d

ClampDelta(d) == IF d < 0 THEN 0 ELSE d

DeltaRecord(cmap, pmap, k) ==
    LET curr == Get(cmap, k, [playcount |-> 0])
        prev == Get(pmap, k, [playcount |-> 0])
        curr_count == Get(curr, "playcount", 0)
        prev_count == Get(prev, "playcount", 0)
    IN [key    |-> k,
        file   |-> PyOr(Get(curr, "file", None), Get(prev, "file", None)),
        title  |-> PyOr(Get(curr, "title", None), Get(prev, "title", None)),
        artist |-> PyOr(Get(curr, "artist", None), Get(prev, "artist", None)),
        album  |-> PyOr(Get(curr, "album", None), Get(prev, "album", None)),
        current_playcount  |-> curr_count,
        previous_playcount |-> prev_count,
        delta  |-> ClampDelta(curr_count - prev_count)]

\* the dict deltas as the sequence of its items in insertion order, which is
\* the order in which the loop meets the keys of the set all_keys
compute_deltas(cmap, pmap, order) ==
    [i \in 1..Len(order) |-> DeltaRecord(cmap, pmap, order[i])]

(***************************************************************************)
(* aggregate_stats                                                         *)
(***************************************************************************)
\* list.sort(key=..., reverse=True) and heapq.nlargest order their input by
\* key descending and keep elements of equal key in their input order.
\* SortDesc sorts a sequence of pairs <<element, key>> so: the elements of
\* the largest key in their input order, then those of the next key, ...
RECURSIVE SortByKeys(_, _)
SortByKeys(pairs, ks) ==
    IF ks = {} THEN <<>>
    ELSE SelectSeq(pairs, LAMBDA e : e[2] = Max(ks)) \o SortByKeys(pairs, ks \ {Max(ks)})

\* mutant: sorted ascending and then reversed, which reverses the input
\* order of the elements of equal key
SortDesc_TiesReversed(pairs) ==
    LET neg == [i \in 1..Len(pairs) |-> <<pairs[i][1], 0 - pairs[i][2]>>]
        rev == Reverse(SortByKeys(neg, {neg[i][2] : i \in 1..Len(neg)}))
    IN [i \in 1..Len(rev) |-> <<rev[i][1], 0 - rev[i][2]>>]

SortDesc(pairs) == SortByKeys(pairs, {pairs[i][2] : i \in 1..Len(pairs)})

\* Counter.most_common(n) of a Counter given as the sequence of its items
\* <<key, count>> in insertion order
\* mutant: the first n items in insertion order
most_common_Unsorted(c, n) == Take(c, n)

most_common(c, n) == Take(SortDesc(c), n)

\* mutant: "if d >= 0"
PlayedRecords_NonNegative(ds) == SelectSeq(ds, LAMBDA v : v.delta >= 0)

\* the records the loop's "if d > 0" branch handles, in iteration order
PlayedRecords(ds) == SelectSeq(ds, LAMBDA v : v.delta > 0)

\* the keys of a Counter filled from the sequence names, in insertion order:
\* the first occurrences
FirstSeen(names) ==
    LET firsts == SelectSeq([i \in 1..Len(names) |-> i],
                            LAMBDA i : \A j \in 1..(i - 1) : names[j] # names[i])
    IN [i \in 1..Len(firsts) |-> names[firsts[i]]]

\* by_artist / by_album (field is "artist" or "album"): each name with the
\* sum of the deltas the loop added under it
by_field(ds, field) ==
    LET played == PlayedRecords(ds)
        names  == FirstSeen([i \in 1..Len(played) |-> played[i][field]])
    IN [i \in 1..Len(names) |->
          <<names[i],
            SumSeq([j \in 1..Len(played) |->
                      IF played[j][field] = names[i] THEN played[j].delta ELSE 0])>>]

\* mutant: the records with delta 0 are counted too
track_count_AllRecords(ds, field, name) ==
    Len(SelectSeq(ds, LAMBDA v : v[field] = name))

\* artist_track_counts.get(name, 0) / album_track_counts.get(name, 0)
track_count(ds, field, name) ==
    Len(SelectSeq(PlayedRecords(ds), LAMBDA v : v[field] = name))

SongEntry(v) ==
    [title |-> v.title, artist |-> v.artist, album |-> v.album,
     plays |-> v.delta, file |-> v.file]

top_songs(ds) ==
    LET played == PlayedRecords(ds)
        sorted == SortDesc([i \in 1..Len(played) |-> <<SongEntry(played[i]), played[i].delta>>])
    IN Take([i \in 1..Len(sorted) |-> sorted[i][1]], TopSongsLimit)

top_artists(ds) ==
    LET top == most_common(by_field(ds, "artist"), TopArtistsLimit)
    IN [i \in 1..Len(top) |->
          [artist |-> top[i][1], plays |-> top[i][2],
           tracks |-> track_count(ds, "artist", top[i][1])]]

\* None is the empty sequence, a top album the sequence of that one record
top_album(ds) ==
    LET by_album == by_field(ds, "album") IN
    IF by_album = <<>> THEN <<>>
    ELSE LET first == most_common(by_album, 1)[1]
         IN <<[album |-> first[1], plays |-> first[2],
               tracks |-> track_count(ds, "album", first[1])]>>

\* mutant: floor division
Average_Floor(total, tracks) ==
    IF tracks # 0 THEN [num |-> total \div tracks, den |-> 1] ELSE [num |-> 0, den |-> 1]

\* total / tracks is a float: the quotient is kept as the fraction num/den,
\* and 0.0 is 0/1
Average(total, tracks) ==
    IF tracks # 0 THEN [num |-> total, den |-> tracks] ELSE [num |-> 0, den |-> 1]

aggregate_stats(ds) ==
    LET total_play_deltas == SumSeq([i \in 1..Len(ds) |-> ds[i].delta])
        tracks_with_plays == Len(PlayedRecords(ds))
    IN [total_play_deltas |-> total_play_deltas,
        tracks_with_plays_this_year |-> tracks_with_plays,
        average_plays_per_played_track |-> Average(total_play_deltas, tracks_with_plays),
        top_5_artists |-> top_artists(ds),
        top_album |-> top_album(ds),
        top_100_songs |-> top_songs(ds)]

(***************************************************************************)
(* produce_summary                                                         *)
(***************************************************************************)
IsNew(v) == v.previous_playcount = 0 /\ v.current_playcount > 0

IsRemoved(v) == v.previous_playcount > 0 /\ v.current_playcount = 0

KeysOf(ds) == [i \in 1..Len(ds) |-> ds[i].key]

\* mutant: the list is cut to the sample before it is counted
new_tracks_Capped(ds) == Take(KeysOf(SelectSeq(ds, IsNew)), SampleLimit)

new_tracks(ds) == KeysOf(SelectSeq(ds, IsNew))

removed_tracks(ds) == KeysOf(SelectSeq(ds, IsRemoved))

produce_summary(cmap, pmap, ds, st) ==
    [metadata |->
        [current_snapshot_tracks    |-> Cardinality(DOMAIN cmap),
         previous_snapshot_tracks   |-> Cardinality(DOMAIN pmap),
         new_tracks_count           |-> Len(new_tracks(ds)),
         removed_tracks_count       |-> Len(removed_tracks(ds)),
         tracks_added_list_sample   |-> Take(new_tracks(ds), SampleLimit),
         tracks_removed_list_sample |-> Take(removed_tracks(ds), SampleLimit)],
     deltas_summary |->
        [total_plays_this_year          |-> st.total_play_deltas,
         tracks_with_plays_this_year    |-> st.tracks_with_plays_this_year,
         average_plays_per_played_track |-> st.average_plays_per_played_track],
     top_lists |->
        [top_5_artists |-> st.top_5_artists,
         top_album     |-> st.top_album,
         top_100_songs |-> st.top_100_songs],
     per_song_deltas_count |-> Len(ds)]

(***************************************************************************)
(* Inputs: the two snapshot files.                                         *)
(***************************************************************************)
\* all sequences over S of length at most n
RECURSIVE SeqsUpTo(_, _)
SeqsUpTo(S, n) ==
    IF n = 0 THEN {<<>>}
    ELSE LET shorter == SeqsUpTo(S, n - 1)
         IN shorter \cup {Append(q, x) : q \in {r \in shorter : Len(r) = n - 1}, x \in S}

\* Exhaustive family.  A library of three tracks by two artists on two
\* albums, written out as ql_playcount.py writes its records; a snapshot
\* holds any subset of it, each track with any play count in 0..MaxPlay.
Library ==
    << [file |-> "f1", title |-> "t1", artist |-> "a1", album |-> "b1"],
       [file |-> "f2", title |-> "t2", artist |-> "a1", album |-> "b2"],
       [file |-> "f3", title |-> "t3", artist |-> "a2", album |-> "b2"] >>

WithPlaycount(tags, n) ==
    [file |-> tags.file, title |-> tags.title, artist |-> tags.artist,
     album |-> tags.album, playcount |-> n]

\* the tracks present of the library, in its order, with their play counts
SnapshotFrom(present, counts) ==
    LET idx == SelectSeq([i \in 1..Len(Library) |-> i], LAMBDA i : i \in present)
    IN [j \in 1..Len(idx) |-> WithPlaycount(Library[idx[j]], counts[idx[j]])]

LibrarySnapshots ==
    UNION {{SnapshotFrom(present, counts) : counts \in [present -> 0..MaxPlay]} :
              present \in SUBSET (1..Len(Library))}

\* Raw-record family.  Records as any JSON file may hold them: with an
\* empty artist, without a file, with an empty file, with no field but the
\* play count; a snapshot file is any sequence of at most MaxRecords of them.
RawRecords ==
    { [file |-> "f1", title |-> "t1", artist |-> "a1", album |-> "b1", playcount |-> 1],
      [file |-> "f1", title |-> "t1", artist |-> "", album |-> "b2", playcount |-> 2],
      [title |-> "t1", artist |-> "a1", album |-> "b1"],
      [file |-> "", title |-> "t1", artist |-> "a1", album |-> "b2", playcount |-> 2],
      [playcount |-> 1] }

RawSnapshots == SeqsUpTo(RawRecords, MaxRecords)

\* Big-library family.  Track i of a big library; the libraries have as
\* many tracks as a limit of the program, or up to LargeExtra more.
TrackFile(i) == "f" \o ToString(i)

BigTrack(i, n) ==
    [file |-> TrackFile(i), title |-> "t" \o ToString(i),
     artist |-> "a" \o ToString(i % (TopArtistsLimit + 2)),
     album |-> "b" \o ToString(i % 3), playcount |-> n]

LargeSizes ==
    {SampleLimit + d : d \in 0..LargeExtra} \cup {TopSongsLimit + d : d \in 0..LargeExtra}

LargeMax == TopSongsLimit + LargeExtra

\* first year: no previous file.  grown: every track was there, track 1 is
\* played as much as before, the others more.  shrunk: the even tracks are
\* gone and some odd ones are reset.
BigCurrent(mode, n) ==
    CASE mode = "first"  -> [i \in 1..n |-> BigTrack(i, 1 + (i % 3))]
      [] mode = "grown"  -> [i \in 1..n |-> BigTrack(i, 2 + (i % 3))]
      [] mode = "shrunk" -> [j \in 1..((n + 1) \div 2) |-> BigTrack(2 * j - 1, j % 3)]

BigPrevious(mode, n) ==
    CASE mode = "first"  -> <<>>
      [] mode = "grown"  -> [i \in 1..n |-> BigTrack(i, IF i = 1 THEN 2 + (i % 3) ELSE i % 2)]
      [] mode = "shrunk" -> [i \in 1..n |-> BigTrack(i, 1 + (i % 2))]

(***************************************************************************)
(* Iteration order of the set all_keys.                                    *)
(***************************************************************************)
RECURSIVE Permutations_(_)
Permutations_(S) ==
    IF S = {} THEN {<<>>}
    ELSE UNION {{<<x>> \o p : p \in Permutations_(S \ {x})} : x \in S}

Rotate(s, r) ==
    IF s = <<>> THEN s ELSE [i \in 1..Len(s) |-> s[((i - 1 + r) % Len(s)) + 1]]

\* the keys of a big library in the order of the track numbers
FileOrder(S) == SelectSeq([i \in 1..LargeMax |-> TrackFile(i)], LAMBDA k : k \in S)

\* every order of a set of at most MaxPermuted keys; of a bigger set (a big
\* library) the rotations by 0..LargeRot of the file order and their reverses
IterationOrders(S) ==
    IF Cardinality(S) <= MaxPermuted THEN Permutations_(S)
    ELSE UNION {{Rotate(FileOrder(S), r), Reverse(Rotate(FileOrder(S), r))} : r \in 0..LargeRot}

(***************************************************************************)
(* main                                                                    *)
(***************************************************************************)
NotYet == <<>>

InitRest ==
    /\ pc = "start"
    /\ current_map = NotYet
    /\ prev_map = NotYet
    /\ deltas = NotYet
    /\ stats = NotYet
    /\ summary = NotYet

InitLibrary ==
    /\ current_data \in LibrarySnapshots
    /\ prev_data \in LibrarySnapshots
    /\ prev_exists \in (IF prev_data = <<>> THEN BOOLEAN ELSE {TRUE})
    /\ InitRest

InitRaw ==
    /\ current_data \in RawSnapshots
    /\ prev_data \in RawSnapshots
    /\ prev_exists \in (IF prev_data = <<>> THEN BOOLEAN ELSE {TRUE})
    /\ InitRest

InitLarge ==
    /\ \E mode \in {"first", "grown", "shrunk"}, n \in LargeSizes :
          /\ current_data = BigCurrent(mode, n)
          /\ prev_data = BigPrevious(mode, n)
          /\ prev_exists = (mode # "first")
    /\ InitRest

Init == InitLibrary \/ InitRaw \/ InitLarge

\* current_map = load_playcounts(input_path)
LoadCurrent ==
    /\ pc = "start"
    /\ current_map' = load_playcounts(current_data)
    /\ pc' = "loaded_current"
    /\ UNCHANGED <<current_data, prev_exists, prev_data, prev_map, deltas, stats, summary>>

\* prev_map = load_playcounts(prev_path) if prev_path else {}
LoadPrevious ==
    /\ pc = "loaded_current"
    /\ prev_map' = IF prev_exists THEN load_playcounts(prev_data) ELSE EmptyDict
    /\ pc' = "loaded"
    /\ UNCHANGED <<current_data, prev_exists, prev_data, current_map, deltas, stats, summary>>

\* deltas = compute_deltas(current_map, prev_map)
ComputeDeltas ==
    /\ pc = "loaded"
    /\ \E order \in IterationOrders(all_keys(current_map, prev_map)) :
          deltas' = compute_deltas(current_map, prev_map, order)
    /\ pc' = "deltas"
    /\ UNCHANGED <<current_data, prev_exists, prev_data, current_map, prev_map, stats, summary>>

\* stats = aggregate_stats(deltas)
AggregateStats ==
    /\ pc = "deltas"
    /\ stats' = aggregate_stats(deltas)
    /\ pc' = "stats"
    /\ UNCHANGED <<current_data, prev_exists, prev_data, current_map, prev_map, deltas, summary>>

\* summary = produce_summary(current_map, prev_map, deltas, stats)
ProduceSummary ==
    /\ pc = "stats"
    /\ summary' = produce_summary(current_map, prev_map, deltas, stats)
    /\ pc' = "done"
    /\ UNCHANGED <<current_data, prev_exists, prev_data, current_map, prev_map, deltas, stats>>

Next == LoadCurrent \/ LoadPrevious \/ ComputeDeltas \/ AggregateStats \/ ProduceSummary

Spec == Init /\ [][Next]_vars

(***************************************************************************)
(* Properties.  They are stated on the snapshots, the delta mapping and    *)
(* the results by counting and ranking, not with the operators above.      *)
(***************************************************************************)
HasDeltas == pc \in {"deltas", "stats", "done"}

HasStats == pc \in {"stats", "done"}

Min(a, b) == IF a < b THEN a ELSE b

\* the play count of identifier k in snapshot m, 0 when m has no k
SnapshotCount(m, k) == IF k \in DOMAIN m THEN m[k].playcount ELSE 0

DeltaIdx == 1..Len(deltas)

\* the delta records with delta > 0
PlayedIdx == {i \in DeltaIdx : deltas[i].delta > 0}

\* the sum of the deltas of the records I, as a number of plays counted
PlaysOf(I) == Cardinality(UNION {{<<i, u>> : u \in 1..deltas[i].delta} : i \in I})

\* C1: the delta mapping has exactly the identifiers of current and of
\* previous as its keys, each once.
C1_DeltaKeysAreUnion ==
    HasDeltas =>
        /\ {deltas[i].key : i \in DeltaIdx} = (DOMAIN current_map) \cup (DOMAIN prev_map)
        /\ \A i, j \in DeltaIdx : deltas[i].key = deltas[j].key => i = j

C1_Witness ==
    /\ pc = "deltas"
    /\ (DOMAIN current_map) \ (DOMAIN prev_map) # {}
    /\ (DOMAIN prev_map) \ (DOMAIN current_map) # {}
    /\ (DOMAIN prev_map) \cap (DOMAIN current_map) # {}

\* C2: every delta record holds the current play count c and the previous
\* play count p of its identifier (0 where the snapshot has no such
\* identifier) and delta = max(0, c - p); so delta >= 0, and delta = c when
\* previous is empty.
C2_DeltaIsClampedDifference ==
    HasDeltas =>
        \A i \in DeltaIdx :
            LET c == SnapshotCount(current_map, deltas[i].key)
                p == SnapshotCount(prev_map, deltas[i].key)
            IN /\ deltas[i].current_playcount = c
               /\ deltas[i].previous_playcount = p
               /\ deltas[i].delta = (IF c - p > 0 THEN c - p ELSE 0)
               /\ deltas[i].delta >= 0
               /\ (DOMAIN prev_map = {}) => deltas[i].delta = c

C2_Witness ==
    /\ pc = "deltas"
    /\ \E i \in DeltaIdx :
          /\ deltas[i].previous_playcount > deltas[i].current_playcount
          /\ deltas[i].current_playcount > 0
          /\ deltas[i].delta = 0
    /\ \E i \in DeltaIdx : deltas[i].delta > 0

\* C3: total_play_deltas is the sum of all deltas, tracks_with_plays_this_year
\* the number of records with delta > 0, and the average is 0.0 exactly when
\* there is no such record and total / tracks otherwise.
C3_TotalsAndAverage ==
    HasStats =>
        LET avg == stats.average_plays_per_played_track IN
        /\ stats.total_play_deltas = PlaysOf(DeltaIdx)
        /\ stats.tracks_with_plays_this_year = Cardinality(PlayedIdx)
        /\ avg.den > 0
        /\ (avg.num = 0) <=> (PlayedIdx = {})
        /\ PlayedIdx = {} => avg = [num |-> 0, den |-> 1]
        /\ PlayedIdx # {} => avg.num * Cardinality(PlayedIdx) = PlaysOf(DeltaIdx) * avg.den

\* the average is not a whole number, and a record with delta 0 is there
C3_Witness ==
    /\ pc = "stats"
    /\ \E i \in DeltaIdx : deltas[i].delta = 0
    /\ Cardinality(PlayedIdx) > 1
    /\ stats.total_play_deltas % Cardinality(PlayedIdx) # 0

\* the place of record i among the records with delta > 0 ordered by delta
\* descending, equal deltas in iteration order
SongRank(i) ==
    1 + Cardinality({j \in PlayedIdx :
                        \/ deltas[j].delta > deltas[i].delta
                        \/ deltas[j].delta = deltas[i].delta /\ j < i})

\* C4: top_100_songs is the first min(100, n) of the n records with
\* delta > 0 ordered by delta descending, equal deltas in the iteration order
\* of the delta mapping; it is non-increasing in plays and no song left out
\* has more plays than the last one listed.
C4_TopSongs ==
    HasStats =>
        LET top == stats.top_100_songs IN
        /\ Len(top) = Min(TopSongsLimit, Cardinality(PlayedIdx))
        /\ \A i \in PlayedIdx :
              SongRank(i) <= TopSongsLimit =>
                  top[SongRank(i)] =
                      [title |-> deltas[i].title, artist |-> deltas[i].artist,
                       album |-> deltas[i].album, plays |-> deltas[i].delta,
                       file |-> deltas[i].file]
        /\ \A j \in 1..(Len(top) - 1) : top[j].plays >= top[j + 1].plays
        /\ \A i \in PlayedIdx :
              SongRank(i) > TopSongsLimit => deltas[i].delta <= top[Len(top)].plays

\* more than 100 songs were played, one left out has as many plays as the
\* last one listed, and a record with delta 0 is there
C4_Witness ==
    /\ pc = "stats"
    /\ Cardinality(PlayedIdx) > TopSongsLimit
    /\ \E i \in DeltaIdx : deltas[i].delta = 0
    /\ \E i \in PlayedIdx :
          /\ SongRank(i) > TopSongsLimit
          /\ deltas[i].delta = stats.top_100_songs[TopSongsLimit].plays

\* the artists of the records with delta > 0, the records of one artist,
\* and the artist's place by summed delta descending, equal sums in the order
\* of the artists' first records
PlayedArtists == {deltas[i].artist : i \in PlayedIdx}

ArtistIdx(a) == {i \in PlayedIdx : deltas[i].artist = a}

FirstIdx(I) == CHOOSE i \in I : \A j \in I : i <= j

ArtistRank(a) ==
    1 + Cardinality({b \in PlayedArtists :
                        \/ PlaysOf(ArtistIdx(b)) > PlaysOf(ArtistIdx(a))
                        \/ /\ PlaysOf(ArtistIdx(b)) = PlaysOf(ArtistIdx(a))
                           /\ FirstIdx(ArtistIdx(b)) < FirstIdx(ArtistIdx(a))})

\* C5: top_5_artists lists the first min(5, n) of the n artists with a played
\* track, ordered by summed delta descending, equal sums in the order the
\* artists are first met; each entry holds the sum and the number of the
\* artist's records with delta > 0.
C5_TopArtists ==
    HasStats =>
        LET top == stats.top_5_artists IN
        /\ Len(top) = Min(TopArtistsLimit, Cardinality(PlayedArtists))
        /\ \A a \in PlayedArtists :
              ArtistRank(a) <= TopArtistsLimit =>
                  top[ArtistRank(a)] =
                      [artist |-> a, plays |-> PlaysOf(ArtistIdx(a)),
                       tracks |-> Cardinality(ArtistIdx(a))]
        /\ \A j \in 1..(Len(top) - 1) : top[j].plays >= top[j + 1].plays
        /\ \A a \in PlayedArtists :
              ArtistRank(a) > TopArtistsLimit =>
                  PlaysOf(ArtistIdx(a)) <= top[Len(top)].plays

\* more than 5 artists were played, two listed ones have equal sums, and an
\* artist has a record with delta 0
C5_Witness ==
    /\ pc = "stats"
    /\ Cardinality(PlayedArtists) > TopArtistsLimit
    /\ \E j \in 1..(TopArtistsLimit - 1) :
          stats.top_5_artists[j].plays = stats.top_5_artists[j + 1].plays
    /\ \E i \in DeltaIdx : deltas[i].delta = 0 /\ deltas[i].artist \in PlayedArtists

PlayedAlbums == {deltas[i].album : i \in PlayedIdx}

AlbumIdx(b) == {i \in PlayedIdx : deltas[i].album = b}

\* C6: top_album is null exactly when no record has delta > 0; otherwise it
\* names an album of maximal summed delta, with that sum (> 0) as plays and
\* the number of the album's records with delta > 0 (>= 1) as tracks.
C6_TopAlbum ==
    HasStats =>
        /\ (stats.top_album = <<>>) <=> (PlayedIdx = {})
        /\ PlayedIdx # {} =>
              LET top == stats.top_album[1] IN
              /\ Len(stats.top_album) = 1
              /\ top.album \in PlayedAlbums
              /\ \A b \in PlayedAlbums : PlaysOf(AlbumIdx(b)) <= PlaysOf(AlbumIdx(top.album))
              /\ top.plays = PlaysOf(AlbumIdx(top.album))
              /\ top.plays > 0
              /\ top.tracks = Cardinality(AlbumIdx(top.album))
              /\ top.tracks >= 1

\* the top album has more plays than another played album, is not the album
\* met first, and has a record with delta 0
C6_Witness ==
    /\ pc = "stats"
    /\ Cardinality(PlayedAlbums) > 1
    /\ deltas[FirstIdx(PlayedIdx)].album # stats.top_album[1].album
    /\ \E i \in DeltaIdx : deltas[i].delta = 0 /\ deltas[i].album = stats.top_album[1].album

\* the records of the new and of the removed tracks, and the place of a
\* record among those of a set I in iteration order
NewIdx ==
    {i \in DeltaIdx : deltas[i].previous_playcount = 0 /\ deltas[i].current_playcount > 0}

RemovedIdx ==
    {i \in DeltaIdx : deltas[i].previous_playcount > 0 /\ deltas[i].current_playcount = 0}

PlaceIn(I, i) == Cardinality({j \in I : j <= i})

\* sample is the first min(10, |I|) keys of the records I in iteration order
IsSampleOf(sample, I) ==
    /\ Len(sample) = Min(SampleLimit, Cardinality(I))
    /\ \A i \in I : PlaceIn(I, i) <= SampleLimit => sample[PlaceIn(I, i)] = deltas[i].key

\* C7: the summary counts all new tracks (previous play count 0, current
\* > 0) and all removed tracks (previous > 0, current 0), samples the first
\* 10 of each in iteration order, and reports the sizes of the two snapshots;
\* a played identifier that only current has is new, one that only previous
\* has is removed.
C7_SummaryMetadata ==
    pc = "done" =>
        LET m == summary.metadata IN
        /\ m.new_tracks_count = Cardinality(NewIdx)
        /\ m.removed_tracks_count = Cardinality(RemovedIdx)
        /\ IsSampleOf(m.tracks_added_list_sample, NewIdx)
        /\ IsSampleOf(m.tracks_removed_list_sample, RemovedIdx)
        /\ m.current_snapshot_tracks = Cardinality(DOMAIN current_map)
        /\ m.previous_snapshot_tracks = Cardinality(DOMAIN prev_map)
        /\ \A k \in (DOMAIN current_map) \ (DOMAIN prev_map) :
              current_map[k].playcount > 0 => \E i \in NewIdx : deltas[i].key = k
        /\ \A k \in (DOMAIN prev_map) \ (DOMAIN current_map) :
              prev_map[k].playcount > 0 => \E i \in RemovedIdx : deltas[i].key = k

\* more than 10 tracks are new, and a new track that only current has is
\* not in the sample
C7_Witness ==
    /\ pc = "done"
    /\ summary.metadata.new_tracks_count > SampleLimit
    /\ Len(summary.metadata.tracks_added_list_sample) = SampleLimit
    /\ \E i \in NewIdx :
          /\ deltas[i].key \notin DOMAIN prev_map
          /\ \A j \in 1..SampleLimit :
                summary.metadata.tracks_added_list_sample[j] # deltas[i].key

TagFields == {"title", "artist", "album"}

\* C8: title, artist and album of a delta record are those of the current
\* snapshot's record whenever current has the identifier, and those of the
\* previous snapshot's record only when it has not.
C8_TagsFromCurrent ==
    HasDeltas =>
        \A i \in DeltaIdx : \A f \in TagFields :
            deltas[i][f] = (IF deltas[i].key \in DOMAIN current_map
                            THEN current_map[deltas[i].key][f]
                            ELSE prev_map[deltas[i].key][f])

\* C9: with previous equal to current every delta is 0, the totals are 0,
\* the three top lists are empty or null, and no track is new or removed.
C9_SameSnapshotGivesNothing ==
    (HasDeltas /\ current_map = prev_map) =>
        /\ \A i \in DeltaIdx : deltas[i].delta = 0
        /\ HasStats =>
              /\ stats.total_play_deltas = 0
              /\ stats.tracks_with_plays_this_year = 0
              /\ stats.top_100_songs = <<>>
              /\ stats.top_5_artists = <<>>
              /\ stats.top_album = <<>>
        /\ pc = "done" =>
              /\ summary.metadata.new_tracks_count = 0
              /\ summary.metadata.removed_tracks_count = 0
              /\ summary.metadata.tracks_added_list_sample = <<>>
              /\ summary.metadata.tracks_removed_list_sample = <<>>

C9_Witness ==
    /\ pc = "done"
    /\ current_map = prev_map
    /\ Cardinality(DOMAIN current_map) > 1
    /\ \E k \in DOMAIN current_map : current_map[k].playcount > 0

HasUsableFile(item) == "file" \in DOMAIN item /\ item["file"] # ""

\* C10: a snapshot is never built from a file that holds a record without a
\* usable identifier (no file value): loading such a file fails instead.
C10_NoSnapshotFromFilelessRecord ==
    /\ pc # "start" => \A i \in 1..Len(current_data) : HasUsableFile(current_data[i])
    /\ (pc \notin {"start", "loaded_current"} /\ prev_exists) =>
          \A i \in 1..Len(prev_data) : HasUsableFile(prev_data[i])

====
